---- MODULE Spec2Model ----
(***************************************************************************)
(* The NoteSphere front end: App (fetchNotes, handleSaveNote), NoteEditor  *)
(* (handleKeyDown, handleSave, the textarea's onChange) and NoteVisualizer *)
(* (one Box per note), together with the notes API the front end talks to. *)
(*                                                                         *)
(* JavaScript runs each handler to completion, so one action is one        *)
(* handler up to its first await, or the continuation after an await.      *)
(***************************************************************************)
EXTENDS Integers, Sequences, FiniteSets, TLC

\* ---------------------------------------------------------------- bounds
\* Clicks on "Save Note" in one run.
MaxClicks == 2
\* Lines written by console.log in one run.
MaxLogs == 1

\* ------------------------------------------------------------ text values
\* A text is a sequence of characters. The texts typed into the textarea:
\* nothing, blanks only, a plain text, and a text with blanks around it.
Whitespace == {" "}
Contents == {<<>>, <<" ", " ">>, <<"a">>, <<" ", "b", " ">>}

\* String.prototype.trimStart / trimEnd / trim.
RECURSIVE TrimStart(_)
TrimStart(s) ==
  IF s # <<>> /\ Head(s) \in Whitespace THEN TrimStart(Tail(s)) ELSE s

RECURSIVE TrimEnd(_)
TrimEnd(s) ==
  IF s # <<>> /\ s[Len(s)] \in Whitespace
    THEN TrimEnd(SubSeq(s, 1, Len(s) - 1))
    ELSE s

\* A trim that was forgotten: the text is taken as typed.
TrimNone(s) == s

Trim(s) == TrimEnd(TrimStart(s))

\* The two alert() texts of handleSaveNote.
EmptyAlert == "Note content cannot be empty."
FailedAlert == "Failed to save note"

\* A position is a 3-array, or <<>> when the note carries none. The backend
\* places each new note itself; here the n-th note stored is put at <<n, n, n>>.
PositionOf(id) == <<id, id, id>>
DefaultPosition == <<0, 0, 0>>

VARIABLES
  notes,        \* App: useState([]) - the list handed to NoteVisualizer
  requests,     \* every axios request made so far, in the order issued
  store,        \* the notes the backend holds
  alerts,       \* the texts shown by alert(), oldest first
  noteContent,  \* NoteEditor: useState('')
  focused,      \* whether the textarea has the focus
  mounted,      \* whether NoteEditor is mounted (keydown listener registered)
  consoleLog,   \* number of console.log lines written
  clicks,       \* clicks on "Save Note" dispatched so far
  saveCalls     \* calls of onSave (= handleSaveNote) so far

vars == <<notes, requests, store, alerts, noteContent, focused, mounted,
          consoleLog, clicks, saveCalls>>

editorVars == <<noteContent, focused, mounted, consoleLog, clicks, saveCalls>>

\* A request: kind GET/POST, the posted content, and where it stands:
\*   "sent"   issued, the backend has not answered
\*   "ok"     the promise is fulfilled, the code after the await has not run
\*   "err"    the promise is rejected, the catch block has not run
\*   "done"   the code after the await has run
\*   "failed" the catch block has run
\* data is response.data: the list of notes of a GET, <<note>> for a POST.
\* pendingAtCall: the POSTs whose handleSaveNote call had not finished when
\* this one was issued (the calls this one races with).
GetRequest ==
  [kind |-> "GET", content |-> <<>>, stage |-> "sent", data |-> <<>>,
   pendingAtCall |-> {}]

Unsettled(reqs) ==
  {i \in DOMAIN reqs : reqs[i].kind = "POST" /\ reqs[i].stage \in {"sent", "ok", "err"}}

PostRequest(content) ==
  [kind |-> "POST", content |-> content, stage |-> "sent", data |-> <<>>,
   pendingAtCall |-> Unsettled(requests)]

\* App mounts with notes = [] and its effect has called fetchNotes(), which
\* is suspended at the await of axios.get; NoteEditor is mounted with an
\* empty textarea and its keydown listener registered.
Init ==
  /\ notes = <<>>
  /\ requests = <<GetRequest>>
  /\ store = <<>>
  /\ alerts = <<>>
  /\ noteContent = <<>>
  /\ focused = FALSE
  /\ mounted = TRUE
  /\ consoleLog = 0
  /\ clicks = 0
  /\ saveCalls = 0

\* ------------------------------------------------------------ NoteEditor
\* The user clicks into the textarea / moves the focus away from it.
FocusTextarea ==
  /\ mounted /\ ~focused
  /\ focused' = TRUE
  /\ UNCHANGED <<notes, requests, store, alerts, noteContent, mounted,
                 consoleLog, clicks, saveCalls>>

BlurTextarea ==
  /\ mounted /\ focused
  /\ focused' = FALSE
  /\ UNCHANGED <<notes, requests, store, alerts, noteContent, mounted,
                 consoleLog, clicks, saveCalls>>

\* onChange={(e) => setNoteContent(e.target.value)}: typing into the focused
\* textarea changes its value.
onChange(value) ==
  /\ mounted /\ focused
  /\ value # noteContent
  /\ noteContent' = value
  /\ UNCHANGED <<notes, requests, store, alerts, focused, mounted,
                 consoleLog, clicks, saveCalls>>

\* A keydown on window. The listener exists only while NoteEditor is mounted.
handleKeyDown(ctrlKey, key) ==
  IF mounted /\ ctrlKey /\ key = "n"
    THEN /\ consoleLog < MaxLogs
         /\ focused' = TRUE
         /\ consoleLog' = consoleLog + 1
         /\ UNCHANGED <<notes, requests, store, alerts, noteContent, mounted,
                        clicks, saveCalls>>
    ELSE UNCHANGED vars

\* App.handleSaveNote(content), up to the await of axios.post.
handleSaveNote(content) ==
  /\ saveCalls' = saveCalls + 1
  /\ IF Trim(content) = <<>>
       THEN /\ alerts' = Append(alerts, EmptyAlert)
            /\ requests' = requests
       ELSE /\ requests' = Append(requests, PostRequest(content))
            /\ alerts' = alerts
  /\ UNCHANGED <<notes, store>>

\* handleSave with the clearing of the textarea switched on.
handleSaveClearing ==
  /\ mounted
  /\ clicks < MaxClicks
  /\ clicks' = clicks + 1
  /\ handleSaveNote(noteContent)
  /\ noteContent' = <<>>
  /\ UNCHANGED <<focused, mounted, consoleLog>>

\* A click on "Save Note": handleSave calls onSave(noteContent), which App
\* binds to handleSaveNote, and keeps the content.
handleSave ==
  /\ mounted
  /\ clicks < MaxClicks
  /\ clicks' = clicks + 1
  /\ handleSaveNote(noteContent)
  /\ noteContent' = noteContent
  /\ UNCHANGED <<focused, mounted, consoleLog>>

\* NoteEditor is unmounted: the effect's cleanup removes the listener.
Unmount ==
  /\ mounted
  /\ mounted' = FALSE
  /\ focused' = FALSE
  /\ UNCHANGED <<notes, requests, store, alerts, noteContent, consoleLog,
                 clicks, saveCalls>>

\* NoteEditor is mounted again: useState('') and a fresh listener.
Mount ==
  /\ ~mounted
  /\ mounted' = TRUE
  /\ noteContent' = <<>>
  /\ focused' = FALSE
  /\ UNCHANGED <<notes, requests, store, alerts, consoleLog, clicks,
                 saveCalls>>

\* --------------------------------------------------------------- backend
\* GET /api/notes answers with the stored notes.
ServeGet(i) ==
  /\ requests[i].kind = "GET" /\ requests[i].stage = "sent"
  /\ requests' = [requests EXCEPT ![i].stage = "ok", ![i].data = store]
  /\ UNCHANGED <<notes, store, alerts>>
  /\ UNCHANGED editorVars

\* POST /api/notes stores a new note and answers with it (id, content,
\* position).
ServePost(i) ==
  /\ requests[i].kind = "POST" /\ requests[i].stage = "sent"
  /\ LET note == [id |-> Len(store) + 1, content |-> requests[i].content,
                  position |-> PositionOf(Len(store) + 1)]
     IN /\ store' = Append(store, note)
        /\ requests' = [requests EXCEPT ![i].stage = "ok", ![i].data = <<note>>]
  /\ UNCHANGED <<notes, alerts>>
  /\ UNCHANGED editorVars

\* The request fails (network error or error status): axios rejects.
RejectRequest(i) ==
  /\ requests[i].stage = "sent"
  /\ requests' = [requests EXCEPT ![i].stage = "err"]
  /\ UNCHANGED <<notes, store, alerts>>
  /\ UNCHANGED editorVars

\* ------------------------------------------------------------------- App
\* fetchNotes after the await: setNotes(response.data || []). A list, even
\* an empty one, is truthy, so the list answered is the list set.
fetchNotesThen(i) ==
  /\ requests[i].kind = "GET" /\ requests[i].stage = "ok"
  /\ notes' = requests[i].data
  /\ requests' = [requests EXCEPT ![i].stage = "done"]
  /\ UNCHANGED <<store, alerts>>
  /\ UNCHANGED editorVars

\* fetchNotes' catch block: setNotes([]).
fetchNotesCatch(i) ==
  /\ requests[i].kind = "GET" /\ requests[i].stage = "err"
  /\ notes' = <<>>
  /\ requests' = [requests EXCEPT ![i].stage = "failed"]
  /\ UNCHANGED <<store, alerts>>
  /\ UNCHANGED editorVars

\* An updater that puts the new note first.
PrependNote(prevNotes, data) == <<data>> \o prevNotes

\* The updater prevNotes => [...prevNotes, response.data].
AppendNote(prevNotes, data) == Append(prevNotes, data)

\* handleSaveNote after the await: setNotes(updater), applied by React to
\* the current state.
handleSaveNoteThen(i) ==
  /\ requests[i].kind = "POST" /\ requests[i].stage = "ok"
  /\ notes' = AppendNote(notes, requests[i].data[1])
  /\ requests' = [requests EXCEPT ![i].stage = "done"]
  /\ UNCHANGED <<store, alerts>>
  /\ UNCHANGED editorVars

\* A catch block that only logs to the console.
handleSaveNoteCatchSilent(i) ==
  /\ requests[i].kind = "POST" /\ requests[i].stage = "err"
  /\ requests' = [requests EXCEPT ![i].stage = "failed"]
  /\ UNCHANGED <<notes, store, alerts>>
  /\ UNCHANGED editorVars

\* handleSaveNote's catch block: console.error and alert.
handleSaveNoteCatch(i) ==
  /\ requests[i].kind = "POST" /\ requests[i].stage = "err"
  /\ alerts' = Append(alerts, FailedAlert)
  /\ requests' = [requests EXCEPT ![i].stage = "failed"]
  /\ UNCHANGED <<notes, store>>
  /\ UNCHANGED editorVars

\* -------------------------------------------------------- NoteVisualizer
\* notes.map(note => <Box key={note.id} position={note.position || [0,0,0]}>)
RenderedPoints(ns) ==
  [k \in DOMAIN ns |->
     [key |-> ns[k].id,
      position |-> IF ns[k].position = <<>> THEN DefaultPosition
                   ELSE ns[k].position]]

\* ------------------------------------------------------------ properties
AllWhitespace(s) == \A k \in DOMAIN s : s[k] \in Whitespace
Range(ns) == {ns[k] : k \in DOMAIN ns}
IdSet(ns) == {ns[k].id : k \in DOMAIN ns}
Posts == {i \in DOMAIN requests : requests[i].kind = "POST"}
Gets == {i \in DOMAIN requests : requests[i].kind = "GET"}
\* The request's await returns / throws in this step.
Fulfils(i) == requests[i].stage = "ok" /\ requests'[i].stage = "done"
Rejects(i) == requests[i].stage = "err" /\ requests'[i].stage = "failed"
\* The most recent backend write a list of notes reflects (ids are given in
\* the order the backend stores the notes).
RECURSIVE Recency(_)
Recency(ns) ==
  IF ns = <<>> THEN 0
  ELSE LET r == Recency(Tail(ns)) IN IF Head(ns).id > r THEN Head(ns).id ELSE r

\* C1: a call of handleSaveNote with content that is empty or only
\* whitespace issues no request, raises the "cannot be empty" alert and
\* leaves the notes list as it was.
C1_EmptyContentRejected ==
  [][(saveCalls' = saveCalls + 1 /\ AllWhitespace(noteContent))
       => /\ requests' = requests
          /\ alerts' = Append(alerts, EmptyAlert)
          /\ notes' = notes]_vars

\* C1 witness: a whitespace-only, non-empty text was rejected (the only
\* other click saved a note, which is still listed).
C1_Witness ==
  /\ clicks = 2 /\ saveCalls = 2
  /\ alerts = <<EmptyAlert>>
  /\ Cardinality(Posts) = 1
  /\ notes # <<>>
  /\ noteContent # <<>> /\ AllWhitespace(noteContent)

\* C2: when the POST of handleSaveNote is rejected, the catch block raises
\* the failure alert and the notes list is exactly what it was, whatever
\* else is pending.
C2_FailedSaveReportedNothingLost ==
  [][\A i \in Posts :
       Rejects(i) => /\ alerts' = Append(alerts, FailedAlert)
                     /\ notes' = notes]_vars

\* C2 witness: a save has failed and was reported while another request was
\* still in flight and a note was listed.
C2_Witness ==
  \E i \in Posts :
    /\ requests[i].stage = "failed"
    /\ FailedAlert \in Range(alerts)
    /\ notes # <<>>
    /\ \E j \in DOMAIN requests : j # i /\ requests[j].stage \in {"sent", "ok", "err"}

\* C3: when the POST of handleSaveNote succeeds, every note listed before
\* is listed afterwards at the same index and unchanged, and exactly one
\* entry, the returned note, is added at the end.
C3_SaveAppendsOnly ==
  [][\A i \in Posts :
       Fulfils(i) => /\ Len(notes') = Len(notes) + 1
                     /\ \A k \in DOMAIN notes : notes'[k] = notes[k]
                     /\ notes'[Len(notes')] = requests[i].data[1]]_vars

\* C3 witness: a returned note was appended behind a different note.
C3_Witness ==
  \E i \in Posts :
    /\ requests[i].stage = "done"
    /\ Len(notes) = 2
    /\ notes[2] = requests[i].data[1]
    /\ notes[1] # notes[2]

\* C4: two handleSaveNote calls in flight at the same time whose POSTs both
\* succeeded are both in the notes list once both responses are handled.
C4_RacingSavesBothListed ==
  \A i \in Posts, j \in Posts :
    (i \in requests[j].pendingAtCall
       /\ requests[i].stage = "done" /\ requests[j].stage = "done")
      => /\ requests[i].data[1] \in Range(notes)
         /\ requests[j].data[1] \in Range(notes)

\* C5: once the load and every save have settled without a failure, the ids
\* rendered are exactly the ids the backend stores, each once.
C5_SettledListMatchesBackend ==
  (\A i \in DOMAIN requests : requests[i].stage = "done")
    => /\ IdSet(notes) = IdSet(store)
       /\ {p.key : p \in Range(RenderedPoints(notes))} = IdSet(store)
       /\ Cardinality(IdSet(notes)) = Len(notes)

\* C6: the notes state set when a response is handled never reflects an
\* older backend state than the state it replaces.
C6_PublishedStatesInOrder ==
  [][(\E i \in DOMAIN requests : Fulfils(i))
       => Recency(notes') >= Recency(notes)]_vars

\* C7: a save is processed by the backend only if no later save of the
\* editor's document is waiting: a superseded save is dropped.
C7_SupersededSaveDropped ==
  [][\A i \in Posts :
       (requests[i].stage = "sent" /\ requests'[i].stage = "ok")
         => ~ \E j \in Posts : j > i /\ requests[j].stage = "sent"]_vars

\* C8: a Ctrl+N handled by the mounted editor leaves the textarea focused
\* and the editor empty; while the editor is unmounted no step changes it.
C8_CtrlNStartsFreshNote ==
  [][/\ (mounted /\ consoleLog' = consoleLog + 1)
          => (focused' /\ noteContent' = <<>>)
     /\ (~mounted /\ ~mounted')
          => (noteContent' = noteContent /\ focused' = focused
                /\ consoleLog' = consoleLog)]_vars

\* C9: when the GET of fetchNotes is rejected, every note listed before is
\* still listed afterwards.
C9_FailedLoadKeepsNotes ==
  [][\A i \in Gets : Rejects(i) => Range(notes) \subseteq Range(notes')]_vars

\* C10: a click on Save calls onSave once, with the editor's content (the
\* POST issued carries it, or it is rejected as empty), and keeps the
\* content; the settling of a request does not touch the content either.
C10_SaveKeepsContent ==
  [][/\ (clicks' = clicks + 1)
          => /\ saveCalls' = saveCalls + 1
             /\ noteContent' = noteContent
             /\ \/ /\ AllWhitespace(noteContent)
                   /\ alerts' = Append(alerts, EmptyAlert)
                   /\ requests' = requests
                \/ /\ ~AllWhitespace(noteContent)
                   /\ Len(requests') = Len(requests) + 1
                   /\ requests'[Len(requests')].kind = "POST"
                   /\ requests'[Len(requests')].content = noteContent
                   /\ requests'[Len(requests')].stage = "sent"
     /\ (\E i \in DOMAIN requests : Fulfils(i) \/ Rejects(i))
          => noteContent' = noteContent]_vars

\* C10 witness: a save failed, the content is still in the editor, and a
\* second click has posted the same content again.
C10_Witness ==
  \E i \in Posts, j \in Posts :
    /\ i < j
    /\ requests[i].stage = "failed"
    /\ requests[i].pendingAtCall = {} /\ requests[j].pendingAtCall = {}
    /\ requests[j].content = requests[i].content
    /\ noteContent = requests[j].content
    /\ clicks = 2 /\ saveCalls = 2

Next ==
  \/ FocusTextarea
  \/ BlurTextarea
  \/ \E value \in Contents : onChange(value)
  \/ \E ctrlKey \in BOOLEAN, key \in {"n", "N", "s"} : handleKeyDown(ctrlKey, key)
  \/ handleSave
  \/ Unmount
  \/ Mount
  \/ \E i \in DOMAIN requests : ServeGet(i)
  \/ \E i \in DOMAIN requests : ServePost(i)
  \/ \E i \in DOMAIN requests : RejectRequest(i)
  \/ \E i \in DOMAIN requests : fetchNotesThen(i)
  \/ \E i \in DOMAIN requests : fetchNotesCatch(i)
  \/ \E i \in DOMAIN requests : handleSaveNoteThen(i)
  \/ \E i \in DOMAIN requests : handleSaveNoteCatch(i)

Spec == Init /\ [][Next]_vars

====
